---- MODULE Spec2Model ----
(***************************************************************************)
(* A model of jsonserializable.py: the dispatch functions, the generic     *)
(* containers List and Dict, the Object engine and the Enum engine.        *)
(*                                                                         *)
(* Python values are tagged tuples, the tag first:                         *)
(*   <<"int", n>>  <<"float", h>> (h counts halves: <<"float", 3>> is 1.5) *)
(*   <<"bool", b>>  <<"str", s>>  <<"none">>  <<"bytes", s>>               *)
(*   <<"list", items>>            a plain list                             *)
(*   <<"dict", pairs>>            a plain dict, pairs in insertion order   *)
(*   <<"List", cls, items>>       an instance of a bound List shape        *)
(*   <<"Dict", cls, pairs>>       an instance of a bound Dict shape        *)
(*   <<"Object", cls, values>>    an Object instance, values in the order  *)
(*                                of cls._object_attributes                *)
(*   <<"member", enum, name>>     an EnumMember                            *)
(* Types are tuples too: <<"int">>, <<"List", E>>, <<"Object", name>>, ... *)
(* The outcome of a call is <<"ok", value>> or <<"raise", kind, message>>. *)
(***************************************************************************)
EXTENDS Integers, Sequences, FiniteSets, TLC

VARIABLES
    op,       \* the last call made: <<name, argument, ...>>
    self,     \* the instance the calls act on (a List, a Dict, an Object)
    data,     \* the plain JSON-compatible data last produced or supplied
    ret,      \* the outcome of the last call
    log,      \* the validate / construct events of the last deserialize
    classes   \* the container classes that exist, in order of creation; a
              \* class is known by its position

vars == <<op, self, data, ret, log, classes>>

\* ------------------------------------------------------------------ bounds
MaxLen == 2          \* longest container built or supplied
MaxInner == 1        \* longest container nested inside another
MaxClasses == 4      \* most container classes that exist in one run
MaxRequests == 2     \* most successful Base[E] requests in one run
MaxBody == 3         \* most assignments in one enum class body

\* ----------------------------------------------------------------- results
Ok(v) == <<"ok", v>>
Raise(kind, msg) == <<"raise", kind, msg>>
IsOk(r) == r[1] = "ok"
Raised(r, kind) == r[1] = "raise" /\ r[2] = kind
NoRet == <<"none">>
\* the outcome r if it raised, else what K makes of its value
Bind(r, K(_)) == IF IsOk(r) THEN K(r[2]) ELSE r

\* ------------------------------------------------------------------ values
PyInt(n) == <<"int", n>>
PyFloat(h) == <<"float", h>>
PyBool(b) == <<"bool", b>>
PyStr(s) == <<"str", s>>
PyNone == <<"none">>
PyBytes(s) == <<"bytes", s>>
PyList(items) == <<"list", items>>
PyDict(pairs) == <<"dict", pairs>>

Kind(v) == v[1]
IsNum(v) == Kind(v) \in {"int", "float", "bool"}
\* the numeric value, in halves
NumVal(v) ==
    CASE Kind(v) = "int" -> 2 * v[2]
      [] Kind(v) = "float" -> v[2]
      [] Kind(v) = "bool" -> IF v[2] THEN 2 ELSE 0

IsListLike(v) == Kind(v) \in {"list", "List"}
IsDictLike(v) == Kind(v) \in {"dict", "Dict"}
\* the elements of a list or List, the (key, value) pairs of a dict or Dict
Items(v) == IF Kind(v) = "list" THEN v[2] ELSE v[3]
Pairs(v) == IF Kind(v) = "dict" THEN v[2] ELSE v[3]

\* ------------------------------------------------------------------- types
TInt == <<"int">>
TFloat == <<"float">>
TBool == <<"bool">>
TStr == <<"str">>
TBytes == <<"bytes">>
TSimpleType == <<"SimpleType">>
TSerializableBase == <<"SerializableBase">>
TEnumMember == <<"EnumMember">>
TList(E) == <<"List", E>>
TDict(E) == <<"Dict", E>>
TObject(n) == <<"Object", n>>
\* class Derived(B): pass, for a bound container shape B
TDerived(B) == <<B[1], B[2], "Derived">>
TEnum(n) == <<"Enum", n>>

\* SimpleType.register(int), (float), (bool), (str); SimpleType is its own subclass
IsSimpleType(t) == t[1] \in {"int", "float", "bool", "str", "SimpleType"}

\* issubclass(t, Serializable)
IsSerializableType(t) == t[1] \in {"List", "Dict", "Object", "Enum", "EnumMember"}

JSON_SCHEMA_TYPES ==
    [k \in {"int", "float", "bool", "str"} |->
        CASE k = "int" -> "number"
          [] k = "float" -> "number"
          [] k = "bool" -> "boolean"
          [] k = "str" -> "string"]

\* ------------------------------------------------- the declared Object shapes
\* class ExampleObject(Object): integer = Attribute(int); string = Attribute(str);
\*                              optional = Attribute(str, optional=True)
\* class OtherObject(ExampleObject): pass
\* class Holder(Object): items = Attribute(List[int]);
\*                       inner = Attribute(ExampleObject, optional=True)
Attribute(n, t, o) == [name |-> n, type |-> t, optional |-> o]

ObjectNames == {"ExampleObject", "OtherObject", "Holder"}

ExampleAttributes ==
    << Attribute("integer", TInt, FALSE),
       Attribute("string", TStr, FALSE),
       Attribute("optional", TStr, TRUE) >>

\* cls._object_attributes: the base's attributes updated with the class's own
ObjectAttributes(n) ==
    CASE n = "ExampleObject" -> ExampleAttributes
      [] n = "OtherObject" -> ExampleAttributes
      [] n = "Holder" ->
            << Attribute("items", TList(TInt), FALSE),
               Attribute("inner", TObject("ExampleObject"), TRUE) >>

ObjectBases(n) ==
    CASE n = "ExampleObject" -> {"ExampleObject"}
      [] n = "OtherObject" -> {"OtherObject", "ExampleObject"}
      [] n = "Holder" -> {"Holder"}

AttrNames(n) == {ObjectAttributes(n)[i].name : i \in 1..Len(ObjectAttributes(n))}
AttrIndex(n, name) ==
    CHOOSE i \in 1..Len(ObjectAttributes(n)) : ObjectAttributes(n)[i].name = name

\* --------------------------------------------------- the declared Enum shapes
\* class Enum(Serializable, metaclass=EnumMeta) itself declares no member
\* class ExampleEnum(Enum): foo = 'bar'; one = 1; array = List[int]([1, 2])
\* class ObjectEnum(Enum):  tag = 'foo'
\*                          obj = ExampleObject(integer=1, string='foo')
EnumNames == {"ExampleEnum", "ObjectEnum"}

Member(n, v) == [name |-> n, value |-> v]

\* cls._member_definitions, in declaration order
MemberDefinitions(e) ==
    CASE e = "ExampleEnum" ->
            << Member("foo", PyStr("bar")),
               Member("one", PyInt(1)),
               Member("array", <<"List", TList(TInt), <<PyInt(1), PyInt(2)>> >>) >>
      [] e = "Enum" -> <<>>
      [] e = "ObjectEnum" ->
            << Member("tag", PyStr("foo")),
               Member("obj", <<"Object", TObject("ExampleObject"),
                               <<PyInt(1), PyStr("foo"), PyNone>> >>) >>

MemberNames(e) == {MemberDefinitions(e)[i].name : i \in 1..Len(MemberDefinitions(e))}
MemberValue(m) ==
    LET defs == MemberDefinitions(m[2])
        i == CHOOSE j \in 1..Len(defs) : defs[j].name = m[3]
    IN  defs[i].value
EnumMember(e, n) == <<"member", e, n>>

\* ---------------------------------------------------------------- equality
RECURSIVE PyEq(_, _)

\* Object.__eq__: the same exact type and pairwise-equal declared attributes
Object__eq__(a, b) ==
    IF Kind(b) # "Object" \/ a[2] # b[2] THEN FALSE
    ELSE \A i \in 1..Len(a[3]) : PyEq(a[3][i], b[3][i])

\* EnumMember.__eq__: another member of the same enum, same name, same value
EnumMember__eq__(a, b) ==
    /\ Kind(b) = "member"
    /\ a[2] = b[2]
    /\ a[3] = b[3]
    /\ PyEq(MemberValue(a), MemberValue(b))

\* Python's ==. List and Dict inherit list.__eq__ and dict.__eq__, which do
\* not look at the class; numbers compare by value across int, float and bool.
PyEq(a, b) ==
    IF IsNum(a) \/ IsNum(b) THEN IsNum(a) /\ IsNum(b) /\ NumVal(a) = NumVal(b)
    ELSE IF Kind(a) = "Object" THEN Object__eq__(a, b)
    ELSE IF Kind(b) = "Object" THEN Object__eq__(b, a)
    ELSE IF Kind(a) = "member" THEN EnumMember__eq__(a, b)
    ELSE IF Kind(b) = "member" THEN EnumMember__eq__(b, a)
    ELSE IF IsListLike(a) \/ IsListLike(b) THEN
        /\ IsListLike(a) /\ IsListLike(b)
        /\ Len(Items(a)) = Len(Items(b))
        /\ \A i \in 1..Len(Items(a)) : PyEq(Items(a)[i], Items(b)[i])
    ELSE IF IsDictLike(a) \/ IsDictLike(b) THEN
        /\ IsDictLike(a) /\ IsDictLike(b)
        /\ Len(Pairs(a)) = Len(Pairs(b))
        /\ \A i \in 1..Len(Pairs(a)) : \E j \in 1..Len(Pairs(b)) :
              /\ PyEq(Pairs(a)[i][1], Pairs(b)[j][1])
              /\ PyEq(Pairs(a)[i][2], Pairs(b)[j][2])
    ELSE Kind(a) = Kind(b) /\ a = b

\* hash(v) succeeds: list, dict and every class that defines __eq__ without
\* __hash__ (Object, EnumMember) are unhashable
Hashable(v) == Kind(v) \in {"int", "float", "bool", "str", "none", "bytes"}

\* -------------------------------------------------------------- isinstance
\* issubclass(a, b) between declared shapes
IsSubclass(a, b) ==
    IF a[1] = "Object" /\ b[1] = "Object" THEN b[2] \in ObjectBases(a[2])
    ELSE IF a[1] \in {"List", "Dict"} /\ a[1] = b[1] /\ Len(a) = 3 /\ Len(b) = 2
    THEN a[2] = b[2]
    ELSE a = b

\* isinstance(v, t); bool is a subclass of int, and an enum's members are
\* EnumMember instances, never instances of the enum class
IsInstance(v, t) ==
    CASE t[1] = "int" -> Kind(v) \in {"int", "bool"}
      [] t[1] = "float" -> Kind(v) = "float"
      [] t[1] = "bool" -> Kind(v) = "bool"
      [] t[1] = "str" -> Kind(v) = "str"
      [] t[1] = "bytes" -> Kind(v) = "bytes"
      [] t[1] = "SimpleType" -> Kind(v) \in {"int", "float", "bool", "str"}
      [] t[1] = "SerializableBase" ->
            Kind(v) \in {"int", "float", "bool", "str", "List", "Dict", "Object", "member"}
      [] t[1] = "EnumMember" -> Kind(v) = "member"
      [] t[1] = "Enum" -> FALSE
      [] t[1] \in {"List", "Dict", "Object"} -> Kind(v) = t[1] /\ IsSubclass(v[2], t)
      [] OTHER -> FALSE

\* ------------------------------------------------------------------ schema
\* A JSON schema is <<"type", tag>>, <<"array", items>>, <<"map", additional>>,
\* <<"object", properties, required>> (additionalProperties false) or
\* <<"enum", literals>>.
RECURSIVE schema(_), serialize(_)

\* the schemas of a sequence of types, or the first failure
RECURSIVE SchemaEach(_, _, _)
SchemaEach(attrs, i, acc) ==
    IF i > Len(attrs) THEN Ok(acc)
    ELSE Bind(schema(attrs[i].type),
              LAMBDA x : SchemaEach(attrs, i + 1, Append(acc, <<attrs[i].name, x>>)))

\* the serialized forms of a sequence of values, or the first failure
RECURSIVE SerializeEach(_, _, _)
SerializeEach(items, i, acc) ==
    IF i > Len(items) THEN Ok(acc)
    ELSE Bind(serialize(items[i]), LAMBDA x : SerializeEach(items, i + 1, Append(acc, x)))

List_schema(cls) == Bind(schema(cls[2]), LAMBDA x : Ok(<<"array", x>>))

Dict_schema(cls) == Bind(schema(cls[2]), LAMBDA x : Ok(<<"map", x>>))

\* the names of the attributes that are not optional, in declaration order
Required(attrs) ==
    [i \in 1..Len(SelectSeq(attrs, LAMBDA a : ~a.optional)) |->
        SelectSeq(attrs, LAMBDA a : ~a.optional)[i].name]

Object_schema(cls) ==
    Bind(SchemaEach(ObjectAttributes(cls[2]), 1, <<>>),
         LAMBDA props : Ok(<<"object", props, Required(ObjectAttributes(cls[2]))>>))

EnumMember_serialize(m) == serialize(MemberValue(m))

\* iter(cls): the members, in declaration order
Members(e) ==
    [i \in 1..Len(MemberDefinitions(e)) |-> EnumMember(e, MemberDefinitions(e)[i].name)]

Enum_schema(cls) ==
    Bind(SerializeEach(Members(cls[2]), 1, <<>>), LAMBDA lits : Ok(<<"enum", lits>>))

\* EnumMember.schema is an instance method: called on the class it lacks self
EnumMember_schema_unbound == Raise("TypeError", "schema() missing 1 required positional argument")

schema(python_type) ==
    IF IsSerializableType(python_type) THEN
        CASE python_type[1] = "List" -> List_schema(python_type)
          [] python_type[1] = "Dict" -> Dict_schema(python_type)
          [] python_type[1] = "Object" -> Object_schema(python_type)
          [] python_type[1] = "Enum" -> Enum_schema(python_type)
          [] python_type[1] = "EnumMember" -> EnumMember_schema_unbound
    ELSE IF IsSimpleType(python_type) THEN
        IF python_type[1] \in DOMAIN JSON_SCHEMA_TYPES
        THEN Ok(<<"type", JSON_SCHEMA_TYPES[python_type[1]]>>)
        ELSE Raise("KeyError", python_type[1])
    ELSE Raise("TypeError", "type has no JSON schema")

\* --------------------------------------------------------------- serialize
List_serialize(v) == Bind(SerializeEach(v[3], 1, <<>>), LAMBDA x : Ok(PyList(x)))

\* the serialized (key, value) pairs of a Dict, or the first failure
RECURSIVE SerializePairs(_, _, _)
SerializePairs(pairs, i, acc) ==
    IF i > Len(pairs) THEN Ok(acc)
    ELSE Bind(serialize(pairs[i][2]),
              LAMBDA x : SerializePairs(pairs, i + 1, Append(acc, <<pairs[i][1], x>>)))

Dict_serialize(v) == Bind(SerializePairs(v[3], 1, <<>>), LAMBDA x : Ok(PyDict(x)))

\* Object.serialize's loop emitting null for an absent optional attribute
RECURSIVE ObjectProperties_null(_, _, _, _)
ObjectProperties_null(attrs, values, i, acc) ==
    IF i > Len(attrs) THEN Ok(acc)
    ELSE IF values[i] = PyNone
         THEN ObjectProperties_null(attrs, values, i + 1,
                                    Append(acc, <<PyStr(attrs[i].name), PyNone>>))
    ELSE Bind(serialize(values[i]),
              LAMBDA x : ObjectProperties_null(attrs, values, i + 1,
                                               Append(acc, <<PyStr(attrs[i].name), x>>)))

\* Object.serialize's loop over self._object_attributes
RECURSIVE ObjectProperties(_, _, _, _)
ObjectProperties(attrs, values, i, acc) ==
    IF i > Len(attrs) THEN Ok(acc)
    ELSE IF values[i] = PyNone /\ attrs[i].optional
         THEN ObjectProperties(attrs, values, i + 1, acc)
    ELSE Bind(serialize(values[i]),
              LAMBDA x : ObjectProperties(attrs, values, i + 1,
                                          Append(acc, <<PyStr(attrs[i].name), x>>)))

Object_serialize(v) ==
    Bind(ObjectProperties(ObjectAttributes(v[2][2]), v[3], 1, <<>>),
         LAMBDA x : Ok(PyDict(x)))

serialize(obj) ==
    IF Kind(obj) \in {"List", "Dict", "Object", "member"} THEN
        CASE Kind(obj) = "List" -> List_serialize(obj)
          [] Kind(obj) = "Dict" -> Dict_serialize(obj)
          [] Kind(obj) = "Object" -> Object_serialize(obj)
          [] Kind(obj) = "member" -> EnumMember_serialize(obj)
    ELSE IF Kind(obj) \in {"int", "float", "bool", "str"} THEN Ok(obj)
    ELSE Raise("TypeError", "object is not serializable")

\* ---------------------------------------------------------------- validate
\* JSON equality of two plain values: a boolean never equals a number
RECURSIVE JsonEq(_, _)
JsonEq(a, b) ==
    IF Kind(a) = "bool" \/ Kind(b) = "bool" THEN a = b
    ELSE IF IsNum(a) \/ IsNum(b) THEN IsNum(a) /\ IsNum(b) /\ NumVal(a) = NumVal(b)
    ELSE IF IsListLike(a) \/ IsListLike(b) THEN
        /\ IsListLike(a) /\ IsListLike(b)
        /\ Len(Items(a)) = Len(Items(b))
        /\ \A i \in 1..Len(Items(a)) : JsonEq(Items(a)[i], Items(b)[i])
    ELSE IF IsDictLike(a) \/ IsDictLike(b) THEN
        /\ IsDictLike(a) /\ IsDictLike(b)
        /\ Len(Pairs(a)) = Len(Pairs(b))
        /\ \A i \in 1..Len(Pairs(a)) : \E j \in 1..Len(Pairs(b)) :
              /\ Pairs(a)[i][1] = Pairs(b)[j][1]
              /\ JsonEq(Pairs(a)[i][2], Pairs(b)[j][2])
    ELSE Kind(a) = Kind(b) /\ a = b

\* jsonschema.validate(instance, schema) returns normally (TRUE) or raises
\* ValidationError (FALSE), for the schema keywords this library emits: type,
\* items, properties, required, additionalProperties, enum. A JSON number is
\* an int or a float and never a bool; an array is a list, an object a dict.
RECURSIVE validate(_, _)
validate(instance, s) ==
    CASE s[1] = "type" ->
            (CASE s[2] = "number" -> Kind(instance) \in {"int", "float"}
               [] s[2] = "string" -> Kind(instance) = "str"
               [] s[2] = "boolean" -> Kind(instance) = "bool")
      [] s[1] = "array" ->
            /\ IsListLike(instance)
            /\ \A i \in 1..Len(Items(instance)) : validate(Items(instance)[i], s[2])
      [] s[1] = "map" ->
            /\ IsDictLike(instance)
            /\ \A i \in 1..Len(Pairs(instance)) : validate(Pairs(instance)[i][2], s[2])
      [] s[1] = "object" ->
            /\ IsDictLike(instance)
            /\ \A r \in 1..Len(s[3]) : \E i \in 1..Len(Pairs(instance)) :
                  Pairs(instance)[i][1] = PyStr(s[3][r])
            /\ \A i \in 1..Len(Pairs(instance)) : \E k \in 1..Len(s[2]) :
                  /\ Pairs(instance)[i][1] = PyStr(s[2][k][1])
                  /\ validate(Pairs(instance)[i][2], s[2][k][2])
      [] s[1] = "enum" -> \E k \in 1..Len(s[2]) : JsonEq(instance, s[2][k])

\* ------------------------------------------------- the primitive constructors
Digits == <<"0", "1", "2", "3", "4", "5", "6", "7", "8", "9">>
Halves == <<"0.0", "0.5", "1.0", "1.5", "2.0", "2.5", "3.0", "3.5", "4.0", "4.5">>

\* h halves truncated toward zero
Trunc(h) == IF h >= 0 THEN h \div 2 ELSE -((-h) \div 2)

\* int(x), float(x), bool(x), str(x) for x a number, bool, str or None
int(x) ==
    CASE Kind(x) = "int" -> Ok(x)
      [] Kind(x) = "bool" -> Ok(PyInt(IF x[2] THEN 1 ELSE 0))
      [] Kind(x) = "float" -> Ok(PyInt(Trunc(x[2])))
      [] Kind(x) = "str" ->
            IF \E n \in 1..Len(Digits) : Digits[n] = x[2]
            THEN Ok(PyInt((CHOOSE n \in 1..Len(Digits) : Digits[n] = x[2]) - 1))
            ELSE Raise("ValueError", "invalid literal for int()")
      [] Kind(x) = "none" -> Raise("TypeError", "int() argument must be a string or a number")

float(x) ==
    CASE Kind(x) \in {"int", "bool", "float"} -> Ok(PyFloat(NumVal(x)))
      [] Kind(x) = "str" ->
            IF \E n \in 1..Len(Digits) : Digits[n] = x[2]
            THEN Ok(PyFloat(2 * ((CHOOSE n \in 1..Len(Digits) : Digits[n] = x[2]) - 1)))
            ELSE IF \E n \in 1..Len(Halves) : Halves[n] = x[2]
            THEN Ok(PyFloat((CHOOSE n \in 1..Len(Halves) : Halves[n] = x[2]) - 1))
            ELSE Raise("ValueError", "could not convert string to float")
      [] Kind(x) = "none" -> Raise("TypeError", "float() argument must be a string or a number")

bool(x) ==
    CASE IsNum(x) -> Ok(PyBool(NumVal(x) # 0))
      [] Kind(x) = "str" -> Ok(PyBool(x[2] # ""))
      [] Kind(x) = "none" -> Ok(PyBool(FALSE))

str(x) ==
    CASE Kind(x) = "str" -> Ok(x)
      [] Kind(x) = "int" /\ x[2] \in 0..9 -> Ok(PyStr(Digits[x[2] + 1]))
      [] Kind(x) = "float" /\ x[2] \in 0..9 -> Ok(PyStr(Halves[x[2] + 1]))
      [] Kind(x) = "bool" -> Ok(PyStr(IF x[2] THEN "True" ELSE "False"))
      [] Kind(x) = "none" -> Ok(PyStr("None"))

\* python_type(data) for a primitive python_type
SimpleType_call(python_type, x) ==
    CASE python_type[1] = "int" -> int(x)
      [] python_type[1] = "float" -> float(x)
      [] python_type[1] = "bool" -> bool(x)
      [] python_type[1] = "str" -> str(x)
      [] python_type[1] = "SimpleType" -> Raise("TypeError", "SimpleType() takes no arguments")

\* ------------------------------------------------------------ construction
\* ContainerBase._check_type over the entries, in order
CheckTypes(cls, items) ==
    IF \A i \in 1..Len(items) : IsInstance(items[i], cls[2]) THEN Ok(PyNone)
    ELSE Raise("TypeError", "entries must be of type")

\* List.__init__ of a bound shape: every item is checked
List__init__(cls, items) ==
    Bind(CheckTypes(cls, items), LAMBDA x : Ok(<<"List", cls, items>>))

Dict_check_key_type(key) ==
    IF Kind(key) = "str" THEN Ok(PyNone) ELSE Raise("TypeError", "keys must be of type str")

\* Dict.__init__'s loop: for each entry the key check, then the value check
RECURSIVE DictCheckEntries(_, _, _)
DictCheckEntries(cls, pairs, i) ==
    IF i > Len(pairs) THEN Ok(PyNone)
    ELSE Bind(Dict_check_key_type(pairs[i][1]),
              LAMBDA x : Bind(CheckTypes(cls, <<pairs[i][2]>>),
                              LAMBDA y : DictCheckEntries(cls, pairs, i + 1)))

Dict__init__(cls, pairs) ==
    Bind(DictCheckEntries(cls, pairs, 1), LAMBDA x : Ok(<<"Dict", cls, pairs>>))

\* the type check of Object.__setattr__ for a declared attribute
CheckAttribute(jsattr, value) ==
    IF jsattr.optional THEN
        IF IsInstance(value, jsattr.type) \/ value = PyNone THEN Ok(PyNone)
        ELSE Raise("TypeError", "must be a type or None")
    ELSE
        IF IsInstance(value, jsattr.type) THEN Ok(PyNone)
        ELSE Raise("TypeError", "must be a type")

KwNames(kwargs) == {kwargs[i][1] : i \in 1..Len(kwargs)}
KwValue(kwargs, name) == kwargs[CHOOSE i \in 1..Len(kwargs) : kwargs[i][1] = name][2]

\* Object.__init__'s loop over self._object_attributes
RECURSIVE ObjectInitLoop(_, _, _, _)
ObjectInitLoop(attrs, kwargs, i, acc) ==
    IF i > Len(attrs) THEN Ok(acc)
    ELSE IF attrs[i].name \in KwNames(kwargs) THEN
        Bind(CheckAttribute(attrs[i], KwValue(kwargs, attrs[i].name)),
             LAMBDA x : ObjectInitLoop(attrs, kwargs, i + 1,
                                       Append(acc, KwValue(kwargs, attrs[i].name))))
    ELSE IF attrs[i].optional THEN ObjectInitLoop(attrs, kwargs, i + 1, Append(acc, PyNone))
    ELSE Raise("TypeError", "missing a required argument")

\* Object.__init__ without the check for unexpected keyword arguments
Object__init__lenient(cls, kwargs) ==
    Bind(ObjectInitLoop(ObjectAttributes(cls[2]), kwargs, 1, <<>>),
         LAMBDA values : Ok(<<"Object", cls, values>>))

\* Object.__init__(**kwargs), kwargs a sequence of <<name, value>>
Object__init__(cls, kwargs) ==
    Bind(ObjectInitLoop(ObjectAttributes(cls[2]), kwargs, 1, <<>>),
         LAMBDA values :
            IF Cardinality(KwNames(kwargs) \ AttrNames(cls[2])) > 0
            THEN Raise("TypeError", "got unexpected keyword argument(s)")
            ELSE Ok(<<"Object", cls, values>>))

\* -------------------------------------------------------------------- Enum
\* cls._name_map: every member, in declaration order
NameMap(e) == Members(e)

\* cls._value_map: the members whose value is hashable (EnumMeta.__new__ skips
\* the others)
ValueMap(e) == SelectSeq(NameMap(e), LAMBDA m : Hashable(MemberValue(m)))

\* the first member of a sequence whose value equals the probe
FirstEqual(members, value) ==
    members[CHOOSE i \in 1..Len(members) :
                /\ PyEq(MemberValue(members[i]), value)
                /\ \A j \in 1..(i - 1) : ~PyEq(MemberValue(members[j]), value)]

\* EnumMeta.from_value without the scan for an unhashable probe
from_value_no_scan(e, value) ==
    IF Hashable(value) /\ \E i \in 1..Len(ValueMap(e)) : PyEq(MemberValue(ValueMap(e)[i]), value)
    THEN Ok(FirstEqual(ValueMap(e), value))
    ELSE Raise("ValueError", "no matching value")

\* EnumMeta.from_value
from_value(e, value) ==
    IF Hashable(value) THEN
        IF \E i \in 1..Len(ValueMap(e)) : PyEq(MemberValue(ValueMap(e)[i]), value)
        THEN Ok(FirstEqual(ValueMap(e), value))
        ELSE Raise("ValueError", "no matching value")
    ELSE
        IF \E i \in 1..Len(NameMap(e)) : PyEq(MemberValue(NameMap(e)[i]), value)
        THEN Ok(FirstEqual(NameMap(e), value))
        ELSE Raise("ValueError", "no matching value")

\* EnumMeta.__getitem__
Enum__getitem__(e, name) ==
    IF name \in MemberNames(e) THEN Ok(EnumMember(e, name)) ELSE Raise("KeyError", name)

\* a name begins with an underscore
Underscored(name) == name \in {"_x", "_name_map"}

\* EnumMeta.__getattr__, which Python calls for a name that ordinary class
\* attribute lookup does not find; ABCMeta has no __getattr__ of its own
Enum__getattr__(e, name) ==
    IF Underscored(name) THEN Raise("AttributeError", "'super' object has no attribute")
    ELSE IF name \in MemberNames(e) THEN Ok(EnumMember(e, name))
    ELSE Raise("AttributeError", name)

\* ------------------------------------------------------------- deserialize
\* A deserialize call yields its outcome r and the events ev it caused, in
\* order: <<"validate", cls>> when jsonschema.validate is called with cls's
\* schema, <<"construct", cls>> when cls(...) is called.
Out(r, ev) == [r |-> r, ev |-> ev]
Validated(cls) == <<"validate", cls>>
Constructed(cls) == <<"construct", cls>>
ValidationError == Raise("ValidationError", "instance does not conform")

\* the call o if it raised, else what K makes of its value and its events
Then(o, K(_, _)) == IF IsOk(o.r) THEN K(o.r[2], o.ev) ELSE o
\* the call o, made after the events ev
After(ev, o) == Out(o.r, ev \o o.ev)

RECURSIVE deserialize(_, _)

\* deserialize(entry, t) for each entry in turn, stopping at the first failure
RECURSIVE DeserializeEach(_, _, _, _, _)
DeserializeEach(items, t, i, acc, ev) ==
    IF i > Len(items) THEN Out(Ok(acc), ev)
    ELSE Then(After(ev, deserialize(items[i], t)),
              LAMBDA x, e : DeserializeEach(items, t, i + 1, Append(acc, x), e))

\* jsonschema.validate(d, cls.schema()), then the rest of the classmethod
Validating(cls, s, d, K(_)) ==
    IF ~IsOk(s) THEN Out(s, <<>>)
    ELSE IF ~validate(d, s[2]) THEN Out(ValidationError, <<Validated(cls)>>)
    ELSE K(<<Validated(cls)>>)

\* List.deserialize creating the instance before it validates the data
List_deserialize_late(cls, d) ==
    IF ~IsOk(List_schema(cls)) THEN Out(List_schema(cls), <<>>)
    ELSE IF ~validate(d, List_schema(cls)[2])
         THEN Out(ValidationError, <<Constructed(cls), Validated(cls)>>)
    ELSE Then(DeserializeEach(Items(d), cls[2], 1, <<>>, <<Constructed(cls), Validated(cls)>>),
              LAMBDA items, e : Out(List__init__(cls, items), e))

\* List.deserialize: cls(...) is called with a generator, so the entries are
\* deserialized inside the constructor call
List_deserialize(cls, d) ==
    Validating(cls, List_schema(cls), d,
        LAMBDA ev :
            Then(DeserializeEach(Items(d), cls[2], 1, <<>>, Append(ev, Constructed(cls))),
                 LAMBDA items, e : Out(List__init__(cls, items), e)))

\* deserialize(value, t) for each (key, value) in turn
RECURSIVE DeserializePairs(_, _, _, _, _)
DeserializePairs(pairs, t, i, acc, ev) ==
    IF i > Len(pairs) THEN Out(Ok(acc), ev)
    ELSE Then(After(ev, deserialize(pairs[i][2], t)),
              LAMBDA x, e : DeserializePairs(pairs, t, i + 1,
                                             Append(acc, <<pairs[i][1], x>>), e))

\* Dict.deserialize: the dict comprehension is evaluated, then cls(...) called
Dict_deserialize(cls, d) ==
    Validating(cls, Dict_schema(cls), d,
        LAMBDA ev :
            Then(DeserializePairs(Pairs(d), cls[2], 1, <<>>, ev),
                 LAMBDA pairs, e : Out(Dict__init__(cls, pairs), Append(e, Constructed(cls)))))

\* Object.deserialize's loop: kwargs[name] = deserialize(value, jsattr.type)
RECURSIVE DeserializeFields(_, _, _, _, _)
DeserializeFields(cls, pairs, i, acc, ev) ==
    IF i > Len(pairs) THEN Out(Ok(acc), ev)
    ELSE Then(After(ev, deserialize(pairs[i][2],
                     ObjectAttributes(cls[2])[AttrIndex(cls[2], pairs[i][1][2])].type)),
              LAMBDA x, e : DeserializeFields(cls, pairs, i + 1,
                                              Append(acc, <<pairs[i][1][2], x>>), e))

Object_deserialize(cls, d) ==
    Validating(cls, Object_schema(cls), d,
        LAMBDA ev :
            Then(DeserializeFields(cls, Pairs(d), 1, <<>>, ev),
                 LAMBDA kwargs, e :
                    Out(Object__init__(cls, kwargs), Append(e, Constructed(cls)))))

\* Enum.deserialize: validate, then from_value on the raw data
Enum_deserialize(cls, d) ==
    Validating(cls, Enum_schema(cls), d, LAMBDA ev : Out(from_value(cls[2], d), ev))

\* EnumMember.deserialize delegates to the owning enum
EnumMember_deserialize(m, d) == Enum_deserialize(TEnum(m[2]), d)

deserialize(d, python_type) ==
    IF IsSerializableType(python_type) THEN
        CASE python_type[1] = "List" -> List_deserialize(python_type, d)
          [] python_type[1] = "Dict" -> Dict_deserialize(python_type, d)
          [] python_type[1] = "Object" -> Object_deserialize(python_type, d)
          [] python_type[1] = "Enum" -> Enum_deserialize(python_type, d)
          [] python_type[1] = "EnumMember" ->
                Out(Raise("TypeError", "deserialize() missing 1 required positional argument"),
                    <<>>)
    ELSE IF IsSimpleType(python_type) THEN Out(SimpleType_call(python_type, d), <<>>)
    ELSE Out(Raise("TypeError", "cannot deserialize to this type"), <<>>)

\* ---------------------------------------------------------- ContainerMeta
\* A container class: its name (the base's name, then the element types it
\* was bound to), its bases (positions in classes), its _container_type (a
\* type, or None) and its _subclass_cache (<<element type, class>> entries).
\* The element type <<"class", k>> is the container class at position k.
ContainerClass(name, bases, container_type) ==
    [name |-> name, bases |-> bases, container_type |-> container_type, cache |-> <<>>]
TClass(k) == <<"class", k>>
TNotAType == <<"notatype">>

\* bool(t) of a type: a class is true unless its metaclass defines __len__ and
\* it is empty, as an enum without members is (EnumMeta.__len__)
Truthy(t) == IF t[1] = "Enum" THEN Len(MemberDefinitions(t[2])) > 0 ELSE TRUE

_check_serializable_type(python_type) ==
    IF python_type[1] = "notatype" THEN Raise("TypeError", "is not a type")
    ELSE IF ~(IsSimpleType(python_type) \/ IsSerializableType(python_type)
              \/ python_type[1] \in {"class", "SerializableBase"})
    THEN Raise("TypeError", "is not a supported type")
    ELSE Ok(PyNone)

\* A class-creating call yields its outcome r and the classes c that exist
\* after it.
Created(r, c) == [r |-> r, c |-> c]

\* ContainerMeta.__new__(name, bases, classdict, container_type): the new
\* class takes the last position; getattr(cls, '_container_type', None) finds
\* the first base's value
ContainerMeta__new__(cs, name, bases, container_type) ==
    IF container_type # PyNone /\ ~IsOk(_check_serializable_type(container_type))
    THEN Created(_check_serializable_type(container_type), cs)
    ELSE Created(Ok(TClass(Len(cs) + 1)),
                 Append(cs, ContainerClass(name, bases,
                            IF container_type # PyNone /\ Truthy(container_type)
                            THEN container_type
                            ELSE cs[bases[1]].container_type)))

\* the class cached under a key
Cached(cache, key) == cache[CHOOSE i \in 1..Len(cache) : cache[i][1] = key][2]

\* ContainerMeta.__getitem__ creating a class on every request
ContainerMeta__getitem__uncached(cs, k, container_type) ==
    IF ~IsOk(_check_serializable_type(container_type))
    THEN Created(_check_serializable_type(container_type), cs)
    ELSE IF cs[k].container_type # PyNone
    THEN Created(Raise("TypeError", "container type already set"), cs)
    ELSE ContainerMeta__new__(cs, Append(cs[k].name, container_type),
                              <<k>> \o cs[k].bases, container_type)

\* ContainerMeta.__getitem__: self is the class at position k
ContainerMeta__getitem__(cs, k, container_type) ==
    IF ~IsOk(_check_serializable_type(container_type))
    THEN Created(_check_serializable_type(container_type), cs)
    ELSE IF cs[k].container_type # PyNone
    THEN Created(Raise("TypeError", "container type already set"), cs)
    ELSE IF \E i \in 1..Len(cs[k].cache) : cs[k].cache[i][1] = container_type
    THEN Created(Ok(Cached(cs[k].cache, container_type)), cs)
    ELSE Created(Ok(TClass(Len(cs) + 1)),
                 [ContainerMeta__new__(cs, Append(cs[k].name, container_type),
                                       <<k>> \o cs[k].bases, container_type).c
                    EXCEPT ![k].cache = Append(@, <<container_type, TClass(Len(cs) + 1)>>)])

\* the element types a container is asked to bind
ElementTypes(cs) ==
    {TInt, TStr, TBytes, TNotAType, TEnum("Enum"), TSerializableBase}
    \cup {TClass(k) : k \in 1..Len(cs)}

\* Base[E], Base the class at position k; the log keeps what every successful
\* request returned
Parametrize(k, E) ==
    /\ Len(log) < MaxRequests
    /\ Len(classes) < MaxClasses
    /\ op' = <<"ContainerMeta.__getitem__", k, E>>
    /\ ret' = ContainerMeta__getitem__(classes, k, E).r
    /\ classes' = ContainerMeta__getitem__(classes, k, E).c
    /\ log' = IF IsOk(ContainerMeta__getitem__(classes, k, E).r)
              THEN Append(log, <<k, E, ContainerMeta__getitem__(classes, k, E).r[2]>>)
              ELSE log
    /\ UNCHANGED <<self, data>>

\* class Derived(Base): pass, Base the class at position k
Derive(k) ==
    /\ Len(classes) < MaxClasses
    /\ op' = <<"class", k>>
    /\ ret' = ContainerMeta__new__(classes, Append(classes[k].name, "Derived"), <<k>>, PyNone).r
    /\ classes' = ContainerMeta__new__(classes, Append(classes[k].name, "Derived"), <<k>>, PyNone).c
    /\ UNCHANGED <<self, data, log>>

\* ContainerBase.__init__ of the class at position k, before list/dict
\* take the arguments
ContainerBase__init__(cs, k) ==
    IF cs[k].container_type = PyNone
    THEN Raise("TypeError", "container has no inner type - use square brackets to set")
    ELSE Ok(<<"instance", k>>)

\* cls(), cls the class at position k
Instantiate(k) ==
    /\ op' = <<"ContainerBase.__init__", k>>
    /\ ret' = ContainerBase__init__(classes, k)
    /\ UNCHANGED <<self, data, log, classes>>

NextMeta ==
    \/ \E k \in 1..Len(classes), E \in ElementTypes(classes) : Parametrize(k, E)
    \/ \E k \in 1..Len(classes) : Derive(k)
    \/ \E k \in 1..Len(classes) : Instantiate(k)

\* ------------------------------------------------------------------ inputs
SeqsUpTo(S, n) == UNION {[1..k -> S] : k \in 0..n}

\* sequences of (key, value) pairs with pairwise different keys
PairsUpTo(K, V, n) ==
    {p \in SeqsUpTo(K \X V, n) : \A i, j \in 1..Len(p) : i # j => p[i][1] # p[j][1]}

Scalars == {PyInt(1), PyInt(2), PyBool(TRUE), PyStr("foo"), PyFloat(3)}

\* the values of a set of outcomes that did not raise
Built(outcomes) == {r[2] : r \in {x \in outcomes : IsOk(x)}}

IntLists(n) == Built({List__init__(TList(TInt), items) : items \in SeqsUpTo(Scalars, n)})
StrLists(n) == Built({List__init__(TList(TStr), items) : items \in SeqsUpTo(Scalars, n)})
IntDicts(n) ==
    Built({Dict__init__(TDict(TInt), pairs) :
              pairs \in PairsUpTo({PyStr("a"), PyStr("b")}, Scalars, n)})
NestedLists ==
    Built({List__init__(TList(TList(TInt)), items) :
              items \in SeqsUpTo(IntLists(MaxInner) \cup StrLists(MaxInner), MaxLen)})

\* the names at the indices I, in order
Pick(names, I) ==
    [k \in 1..Cardinality(I) |->
        names[CHOOSE i \in I : Cardinality({j \in I : j < i}) = k - 1]]

\* keyword arguments: any subset of the names, each with any of the values
Kwargs(names, values) ==
    UNION {{[i \in 1..Len(Pick(names, I)) |-> <<Pick(names, I)[i], f[i]>>] :
               f \in [1..Cardinality(I) -> values]} :
              I \in SUBSET (1..Len(names))}

ExampleKwargs ==
    Kwargs(<<"integer", "string", "optional", "extra">>,
           {PyInt(1), PyBool(TRUE), PyStr("foo"), PyNone})

ExampleObjects(n) == Built({Object__init__(TObject(n), kw) : kw \in ExampleKwargs})

HolderKwargs ==
    {<< <<"items", l>> >> : l \in IntLists(MaxInner)}
    \cup {<< <<"items", l>>, <<"inner", o>> >> :
             l \in IntLists(MaxInner),
             o \in {x \in ExampleObjects("ExampleObject") : x[3][3] = PyNone}
                   \cup StrLists(0)}

Holders == Built({Object__init__(TObject("Holder"), kw) : kw \in HolderKwargs})

\* instances of the declared shapes, each built by its constructor
Instances ==
    IntLists(MaxLen) \cup StrLists(MaxLen) \cup IntDicts(MaxLen) \cup NestedLists
    \cup ExampleObjects("ExampleObject") \cup ExampleObjects("OtherObject") \cup Holders

\* values serialize() may be handed besides those
OtherValues == Scalars \cup {PyNone, PyBytes("foo"), PyList(<<PyInt(1)>>)}

\* the shapes deserialize() is asked for
Shapes ==
    {TList(TInt), TList(TStr), TDict(TInt), TList(TList(TInt)),
     TObject("ExampleObject"), TObject("OtherObject"), TObject("Holder"),
     TEnum("ExampleEnum"), TEnum("ObjectEnum")}

\* the types the dispatch functions are asked about
Types ==
    Shapes \cup {TInt, TFloat, TBool, TStr, TSimpleType, TSerializableBase, TBytes,
                 TEnumMember}

\* plain data, as a JSON decoder produces it
RawScalars == {PyInt(1), PyBool(TRUE), PyStr("foo"), PyStr("bar"), PyFloat(3), PyNone}
RawLists(n) == {PyList(items) : items \in SeqsUpTo({PyInt(1), PyInt(2), PyStr("foo")}, n)}
RawNested == {PyList(items) : items \in SeqsUpTo(RawLists(MaxInner), MaxLen)}
RawDicts ==
    {PyDict(pairs) :
        pairs \in PairsUpTo({PyStr("a"), PyStr("b")}, {PyInt(1), PyStr("foo")}, MaxLen)}
RawObjects ==
    {PyDict([i \in 1..Len(kw) |-> <<PyStr(kw[i][1]), kw[i][2]>>]) :
        kw \in Kwargs(<<"integer", "string", "optional", "extra">>, {PyInt(1), PyStr("foo")})}
RawHolders ==
    {PyDict(<< <<PyStr("items"), l>> >>) : l \in RawLists(MaxInner)}
    \cup {PyDict(<< <<PyStr("items"), l>>, <<PyStr("inner"), o>> >>) :
             l \in RawLists(MaxInner),
             o \in {PyDict(<< <<PyStr("integer"), PyInt(1)>>, <<PyStr("string"), PyStr("foo")>> >>),
                    PyDict(<< <<PyStr("integer"), PyStr("foo")>> >>)}}
RawData == RawScalars \cup RawLists(MaxLen) \cup RawNested \cup RawDicts
           \cup RawObjects \cup RawHolders

\* type(v) of an instance
TypeOf(v) == IF Kind(v) \in {"List", "Dict", "Object"} THEN v[2] ELSE <<Kind(v)>>

\* ------------------------------------------------------------------- state
Init ==
    /\ op = <<"init">>
    /\ self = PyNone
    /\ data = PyNone
    /\ ret = NoRet
    /\ log = <<>>
    /\ classes = <<ContainerClass(<<"List">>, <<>>, PyNone), ContainerClass(<<"Dict">>, <<>>, PyNone)>>

\* ------------------------------------------- the dispatch functions, as calls
\* The dispatch functions keep no state between calls, so every call is taken
\* from the initial state.
Fresh == op = <<"init">>

\* what a serialize call leaves: its outcome, and the data when it returned
Serialized(r) == ret' = r /\ data' = IF IsOk(r) THEN r[2] ELSE PyNone
\* what a deserialize call leaves: its outcome and its events
Deserialized(o) == ret' = o.r /\ log' = o.ev

\* schema(t)
Schema(t) ==
    /\ Fresh
    /\ op' = <<"schema", t>>
    /\ ret' = schema(t)
    /\ self' = PyNone /\ data' = PyNone /\ log' = <<>>
    /\ UNCHANGED classes

\* serialize(v)
Serialize(v) ==
    /\ Fresh
    /\ op' = <<"serialize">>
    /\ self' = v
    /\ Serialized(serialize(v))
    /\ log' = <<>>
    /\ UNCHANGED classes

\* deserialize(d, t)
Deserialize(d, t) ==
    /\ Fresh
    /\ op' = <<"deserialize", t>>
    /\ data' = d
    /\ Deserialized(deserialize(d, t))
    /\ self' = PyNone
    /\ UNCHANGED classes

\* deserialize(serialize(v), type(v)), on the data the last serialize produced
RoundTrip ==
    /\ op = <<"serialize">>
    /\ IsOk(ret)
    /\ op' = <<"roundtrip", TypeOf(self)>>
    /\ Deserialized(deserialize(data, TypeOf(self)))
    /\ UNCHANGED <<self, data, classes>>

\* List[E].schema(), once List[E] was accepted
BoundSchema(E) ==
    /\ Fresh
    /\ op' = <<"List[E].schema", E>>
    /\ ret' = Bind(_check_serializable_type(E), LAMBDA x : List_schema(TList(E)))
    /\ self' = PyNone /\ data' = PyNone /\ log' = <<>>
    /\ UNCHANGED classes

NextCodec ==
    \/ \E t \in Types : Schema(t)
    \/ \E E \in Types : BoundSchema(E)
    \/ \E v \in Instances \cup OtherValues : Serialize(v)
    \/ \E t \in Shapes, d \in RawData : Deserialize(d, t)
    \/ \E t \in {TInt, TFloat, TBool, TStr, TSimpleType, TBytes}, d \in RawScalars :
          Deserialize(d, t)
    \/ RoundTrip

SpecCodec == Init /\ [][NextCodec]_vars

\* ------------------------------------------------------ container mutation
\* A mutating call yields its outcome r and the container v it leaves.
Mutation(r, v) == [r |-> r, v |-> v]

\* list.__setitem__(index, value): a negative index counts from the end
list__setitem__(v, index, value) ==
    IF index >= 0 /\ index < Len(v[3])
    THEN Mutation(Ok(PyNone), <<"List", v[2], [v[3] EXCEPT ![index + 1] = value]>>)
    ELSE IF index < 0 /\ -index <= Len(v[3])
    THEN Mutation(Ok(PyNone), <<"List", v[2], [v[3] EXCEPT ![Len(v[3]) + index + 1] = value]>>)
    ELSE Mutation(Raise("IndexError", "list assignment index out of range"), v)

\* where list.insert(index, ...) puts the new element (0-based), clamped
InsertAt(n, index) ==
    IF index >= n THEN n
    ELSE IF index >= 0 THEN index
    ELSE IF n + index >= 0 THEN n + index
    ELSE 0

\* list.insert(index, value)
list_insert(v, index, value) ==
    Mutation(Ok(PyNone),
             <<"List", v[2],
               SubSeq(v[3], 1, InsertAt(Len(v[3]), index)) \o <<value>>
               \o SubSeq(v[3], InsertAt(Len(v[3]), index) + 1, Len(v[3]))>>)

\* List.__setitem__ storing the value before it checks its type
List__setitem__unchecked(v, index, value) ==
    IF IsOk(CheckTypes(v[2], <<value>>)) THEN list__setitem__(v, index, value)
    ELSE Mutation(CheckTypes(v[2], <<value>>), list__setitem__(v, index, value).v)

\* List.__setitem__
List__setitem__(v, index, value) ==
    IF IsOk(CheckTypes(v[2], <<value>>)) THEN list__setitem__(v, index, value)
    ELSE Mutation(CheckTypes(v[2], <<value>>), v)

\* List.insert
List_insert(v, index, value) ==
    IF IsOk(CheckTypes(v[2], <<value>>)) THEN list_insert(v, index, value)
    ELSE Mutation(CheckTypes(v[2], <<value>>), v)

\* dict.__setitem__(key, value): an existing key keeps its position
dict__setitem__(v, key, value) ==
    IF \E i \in 1..Len(v[3]) : v[3][i][1] = key
    THEN Mutation(Ok(PyNone),
                  <<"Dict", v[2],
                    [i \in 1..Len(v[3]) |->
                        IF v[3][i][1] = key THEN <<key, value>> ELSE v[3][i]]>>)
    ELSE Mutation(Ok(PyNone), <<"Dict", v[2], Append(v[3], <<key, value>>)>>)

\* Dict.__setitem__ checking the value before the key
Dict__setitem__value_first(v, key, value) ==
    IF ~IsOk(CheckTypes(v[2], <<value>>)) THEN Mutation(CheckTypes(v[2], <<value>>), v)
    ELSE IF ~IsOk(Dict_check_key_type(key)) THEN Mutation(Dict_check_key_type(key), v)
    ELSE dict__setitem__(v, key, value)

\* Dict.__setitem__
Dict__setitem__(v, key, value) ==
    IF ~IsOk(Dict_check_key_type(key)) THEN Mutation(Dict_check_key_type(key), v)
    ELSE IF ~IsOk(CheckTypes(v[2], <<value>>)) THEN Mutation(CheckTypes(v[2], <<value>>), v)
    ELSE dict__setitem__(v, key, value)

\* what a mutating call leaves behind
Mutated(m) == ret' = m.r /\ self' = m.v
\* what a constructor call leaves: the instance, or nothing when it raised
Constructing(r) == ret' = r /\ self' = IF IsOk(r) THEN r[2] ELSE PyNone

\* the values and keys handed to the containers
Entries == {PyInt(1), PyInt(2), PyBool(TRUE), PyStr("foo"), PyNone}
Keys == {PyStr("a"), PyStr("b"), PyInt(1)}
Indices == (-(MaxLen + 2))..(MaxLen + 2)

\* List[int](items)
NewList(items) ==
    /\ Fresh
    /\ op' = <<"List", items>>
    /\ Constructing(List__init__(TList(TInt), items))
    /\ UNCHANGED <<data, log, classes>>

\* self[index] = value
SetItem(index, value) ==
    /\ Kind(self) = "List"
    /\ op' = <<"List.__setitem__", index, value>>
    /\ Mutated(List__setitem__(self, index, value))
    /\ UNCHANGED <<data, log, classes>>

\* self.insert(index, value)
Insert(index, value) ==
    /\ Kind(self) = "List"
    /\ Len(self[3]) <= MaxLen
    /\ op' = <<"List.insert", index, value>>
    /\ Mutated(List_insert(self, index, value))
    /\ UNCHANGED <<data, log, classes>>

\* Dict[int](pairs)
NewDict(pairs) ==
    /\ Fresh
    /\ op' = <<"Dict", pairs>>
    /\ Constructing(Dict__init__(TDict(TInt), pairs))
    /\ UNCHANGED <<data, log, classes>>

\* self[key] = value
DictSetItem(key, value) ==
    /\ Kind(self) = "Dict"
    /\ op' = <<"Dict.__setitem__", key, value>>
    /\ Mutated(Dict__setitem__(self, key, value))
    /\ UNCHANGED <<data, log, classes>>

\* the containers compared: instances of List[int], Dict[int] and of a class
\* derived from each
Comparands ==
    Built({List__init__(cls, items) :
              cls \in {TList(TInt), TDerived(TList(TInt))},
              items \in SeqsUpTo({PyInt(1), PyInt(2)}, MaxLen)})
    \cup Built({Dict__init__(cls, pairs) :
                   cls \in {TDict(TInt), TDerived(TDict(TInt))},
                   pairs \in PairsUpTo({PyStr("a"), PyStr("b")}, {PyInt(1)}, MaxLen)})

\* v == w
Equal(v, w) ==
    /\ Fresh
    /\ op' = <<"__eq__", v, w>>
    /\ ret' = Ok(PyBool(PyEq(v, w)))
    /\ UNCHANGED <<self, data, log, classes>>

NextContainer ==
    \/ \E items \in SeqsUpTo(Entries, MaxLen) : NewList(items)
    \/ \E index \in Indices, value \in Entries : SetItem(index, value)
    \/ \E index \in Indices, value \in Entries : Insert(index, value)
    \/ \E pairs \in PairsUpTo(Keys, Entries, MaxLen) : NewDict(pairs)
    \/ \E key \in Keys, value \in Entries : DictSetItem(key, value)
    \/ \E v \in Comparands, w \in Comparands : Equal(v, w)

SpecContainer == Init /\ [][NextContainer]_vars

\* ------------------------------------------- the mutators list and dict give
\* List and Dict override __init__, __setitem__ and insert (List) and
\* __init__ and __setitem__ (Dict); every other mutator is the one inherited
\* from list or dict, which calls none of the overridden methods.

\* list.append(value)
list_append(v, value) == Mutation(Ok(PyNone), <<"List", v[2], Append(v[3], value)>>)

\* list.extend(values), and list.__iadd__(values), which also returns self
list_extend(v, values) == Mutation(Ok(PyNone), <<"List", v[2], v[3] \o values>>)

\* list.__delitem__(index)
list__delitem__(v, index) ==
    IF index >= 0 /\ index < Len(v[3])
    THEN Mutation(Ok(PyNone),
                  <<"List", v[2], SubSeq(v[3], 1, index) \o SubSeq(v[3], index + 2, Len(v[3]))>>)
    ELSE IF index < 0 /\ -index <= Len(v[3])
    THEN Mutation(Ok(PyNone),
                  <<"List", v[2],
                    SubSeq(v[3], 1, Len(v[3]) + index)
                    \o SubSeq(v[3], Len(v[3]) + index + 2, Len(v[3]))>>)
    ELSE Mutation(Raise("IndexError", "list assignment index out of range"), v)

\* List.__setitem__(slice(start, None), values): _check_type is handed the
\* whole right-hand side
List__setitem__slice(v, start, values) ==
    IF IsOk(CheckTypes(v[2], <<PyList(values)>>))
    THEN Mutation(Ok(PyNone), <<"List", v[2], SubSeq(v[3], 1, InsertAt(Len(v[3]), start)) \o values>>)
    ELSE Mutation(CheckTypes(v[2], <<PyList(values)>>), v)

\* dict.update(pairs)
RECURSIVE dict_update(_, _, _)
dict_update(v, pairs, i) ==
    IF i > Len(pairs) THEN Mutation(Ok(PyNone), v)
    ELSE dict_update(dict__setitem__(v, pairs[i][1], pairs[i][2]).v, pairs, i + 1)

\* dict.setdefault(key, default)
dict_setdefault(v, key, default) ==
    IF \E i \in 1..Len(v[3]) : v[3][i][1] = key
    THEN Mutation(Ok(v[3][CHOOSE i \in 1..Len(v[3]) : v[3][i][1] = key][2]), v)
    ELSE Mutation(Ok(default), <<"Dict", v[2], Append(v[3], <<key, default>>)>>)

\* dict.__delitem__(key)
dict__delitem__(v, key) ==
    IF \E i \in 1..Len(v[3]) : v[3][i][1] = key
    THEN Mutation(Ok(PyNone),
                  <<"Dict", v[2], SelectSeq(v[3], LAMBDA p : p[1] # key)>>)
    ELSE Mutation(Raise("KeyError", "key"), v)

\* the values, value lists and pair lists handed to the inherited mutators
Added == {PyInt(2), PyStr("foo")}
AddedLists == SeqsUpTo(Added, 1)
AddedPairs == SeqsUpTo({<<PyStr("b"), PyInt(2)>>, <<PyStr("b"), PyStr("foo")>>,
                        <<PyInt(1), PyInt(2)>>}, 1)

\* self.append(value)
ListAppend(value) ==
    /\ Kind(self) = "List"
    /\ Len(self[3]) <= MaxLen
    /\ op' = <<"list.append", value>>
    /\ Mutated(list_append(self, value))
    /\ UNCHANGED <<data, log, classes>>

\* self.extend(values)
ListExtend(values) ==
    /\ Kind(self) = "List"
    /\ Len(self[3]) <= MaxLen
    /\ op' = <<"list.extend", values>>
    /\ Mutated(list_extend(self, values))
    /\ UNCHANGED <<data, log, classes>>

\* self += values
ListIAdd(values) ==
    /\ Kind(self) = "List"
    /\ Len(self[3]) <= MaxLen
    /\ op' = <<"list.__iadd__", values>>
    /\ Mutated(list_extend(self, values))
    /\ UNCHANGED <<data, log, classes>>

\* self[start:] = values
ListSetSlice(start, values) ==
    /\ Kind(self) = "List"
    /\ op' = <<"List.__setitem__slice", start, values>>
    /\ Mutated(List__setitem__slice(self, start, values))
    /\ UNCHANGED <<data, log, classes>>

\* del self[index]
ListDelItem(index) ==
    /\ Kind(self) = "List"
    /\ op' = <<"list.__delitem__", index>>
    /\ Mutated(list__delitem__(self, index))
    /\ UNCHANGED <<data, log, classes>>

\* self.update(pairs)
DictUpdate(pairs) ==
    /\ Kind(self) = "Dict"
    /\ op' = <<"dict.update", pairs>>
    /\ Mutated(dict_update(self, pairs, 1))
    /\ UNCHANGED <<data, log, classes>>

\* self.setdefault(key, default)
DictSetDefault(key, default) ==
    /\ Kind(self) = "Dict"
    /\ op' = <<"dict.setdefault", key, default>>
    /\ Mutated(dict_setdefault(self, key, default))
    /\ UNCHANGED <<data, log, classes>>

\* del self[key]
DictDelItem(key) ==
    /\ Kind(self) = "Dict"
    /\ op' = <<"dict.__delitem__", key>>
    /\ Mutated(dict__delitem__(self, key))
    /\ UNCHANGED <<data, log, classes>>

NextMutators ==
    \/ NextContainer
    \/ \E value \in Added : ListAppend(value)
    \/ \E values \in AddedLists : ListExtend(values)
    \/ \E values \in AddedLists : ListIAdd(values)
    \/ \E start \in 0..1, values \in AddedLists : ListSetSlice(start, values)
    \/ \E index \in {-1, 0, MaxLen + 2} : ListDelItem(index)
    \/ \E pairs \in AddedPairs : DictUpdate(pairs)
    \/ \E key \in {PyStr("b"), PyInt(1)}, default \in Added \cup {PyNone} :
          DictSetDefault(key, default)
    \/ \E key \in Keys : DictDelItem(key)

SpecMutators == Init /\ [][NextMutators]_vars

SpecMeta == Init /\ [][NextMeta]_vars

\* ------------------------------------------------------ Object construction
\* cls(**kwargs) for a declared Object shape
Construct(cls, kwargs) ==
    /\ Fresh
    /\ op' = <<"Object", cls, kwargs>>
    /\ Constructing(Object__init__(cls, kwargs))
    /\ UNCHANGED <<data, log, classes>>

\* object.__setattr__(name, value) on an instance of a declared shape
object__setattr__(v, name, value) ==
    <<"Object", v[2], [v[3] EXCEPT ![AttrIndex(v[2][2], name)] = value]>>

\* Object.__setattr__ storing the value before it checks its type
Object__setattr__unchecked(v, name, value) ==
    IF name \notin AttrNames(v[2][2])
    THEN Mutation(Raise("AttributeError", "is not a valid attribute"), v)
    ELSE IF ~IsOk(CheckAttribute(ObjectAttributes(v[2][2])[AttrIndex(v[2][2], name)], value))
    THEN Mutation(CheckAttribute(ObjectAttributes(v[2][2])[AttrIndex(v[2][2], name)], value),
                  object__setattr__(v, name, value))
    ELSE Mutation(Ok(PyNone), object__setattr__(v, name, value))

\* Object.__setattr__
Object__setattr__(v, name, value) ==
    IF name \notin AttrNames(v[2][2])
    THEN Mutation(Raise("AttributeError", "is not a valid attribute"), v)
    ELSE IF ~IsOk(CheckAttribute(ObjectAttributes(v[2][2])[AttrIndex(v[2][2], name)], value))
    THEN Mutation(CheckAttribute(ObjectAttributes(v[2][2])[AttrIndex(v[2][2], name)], value), v)
    ELSE Mutation(Ok(PyNone), object__setattr__(v, name, value))

\* the names and values assigned to instances
AssignedNames == {"integer", "string", "optional", "items", "inner", "other"}
AssignedValues ==
    {PyInt(2), PyBool(TRUE), PyStr("bar"), PyNone}
    \cup IntLists(0) \cup StrLists(0)
    \cup Built({Object__init__(TObject("OtherObject"),
                               << <<"integer", PyInt(1)>>, <<"string", PyStr("foo")>> >>)})

\* self.name = value
SetAttr(name, value) ==
    /\ Kind(self) = "Object"
    /\ op' = <<"Object.__setattr__", name, value>>
    /\ Mutated(Object__setattr__(self, name, value))
    /\ UNCHANGED <<data, log, classes>>

NextObject ==
    \/ \E cls \in {TObject("ExampleObject"), TObject("OtherObject")}, kw \in ExampleKwargs :
          Construct(cls, kw)
    \/ \E kw \in HolderKwargs : Construct(TObject("Holder"), kw)
    \/ \E name \in AssignedNames, value \in AssignedValues : SetAttr(name, value)

SpecObject == Init /\ [][NextObject]_vars

\* what getattr(self, name) finds once the instance no longer holds name: the
\* Attribute declared in the class body
ClassAttribute(name) == <<"Attribute", name>>

\* object.__delattr__(name), which Object inherits: the name leaves the
\* instance, or AttributeError when the instance does not hold it
object__delattr__(v, name) ==
    IF name \in AttrNames(v[2][2]) /\ Kind(v[3][AttrIndex(v[2][2], name)]) # "Attribute"
    THEN Mutation(Ok(PyNone), object__setattr__(v, name, ClassAttribute(name)))
    ELSE Mutation(Raise("AttributeError", "object has no attribute"), v)

\* del self.name
DelAttr(name) ==
    /\ Kind(self) = "Object"
    /\ op' = <<"object.__delattr__", name>>
    /\ Mutated(object__delattr__(self, name))
    /\ UNCHANGED <<data, log, classes>>

NextObjectDel ==
    \/ NextObject
    \/ \E name \in AssignedNames : DelAttr(name)

SpecObjectDel == Init /\ [][NextObjectDel]_vars

\* ------------------------------------------------------------- Enum lookups
\* the values from_value is probed with
Probes ==
    RawScalars \cup RawLists(MaxLen) \cup IntLists(MaxLen) \cup StrLists(MaxLen)
    \cup ExampleObjects("ExampleObject") \cup ExampleObjects("OtherObject")
    \cup {PyDict(<<>>), PyFloat(2), PyInt(2)}

\* the names the enums are indexed and accessed by
LookupNames == {"foo", "one", "array", "tag", "obj", "other", "_x"}

EnumMembers == UNION {{EnumMember(e, n) : n \in MemberNames(e)} : e \in EnumNames}

\* cls.from_value(value)
FromValue(e, value) ==
    /\ Fresh
    /\ op' = <<"from_value", e, value>>
    /\ ret' = from_value(e, value)
    /\ UNCHANGED <<self, data, log, classes>>

\* cls[name]
GetItem(e, name) ==
    /\ Fresh
    /\ op' = <<"Enum.__getitem__", e, name>>
    /\ ret' = Enum__getitem__(e, name)
    /\ UNCHANGED <<self, data, log, classes>>

\* cls.name, for a name ordinary attribute lookup does not find
GetAttr(e, name) ==
    /\ Fresh
    /\ op' = <<"Enum.__getattr__", e, name>>
    /\ ret' = Enum__getattr__(e, name)
    /\ UNCHANGED <<self, data, log, classes>>

\* member.serialize()
MemberSerialize(m) ==
    /\ Fresh
    /\ op' = <<"EnumMember.serialize">>
    /\ self' = m
    /\ Serialized(EnumMember_serialize(m))
    /\ UNCHANGED <<log, classes>>

\* E.deserialize(member.serialize()), on the data the member serialized to
EnumRoundTrip ==
    /\ op = <<"EnumMember.serialize">>
    /\ IsOk(ret)
    /\ op' = <<"Enum.roundtrip">>
    /\ Deserialized(Enum_deserialize(TEnum(self[2]), data))
    /\ UNCHANGED <<self, data, classes>>

\* E.deserialize(d)
EnumDeserialize(e, d) ==
    /\ Fresh
    /\ op' = <<"Enum.deserialize", e>>
    /\ data' = d
    /\ Deserialized(Enum_deserialize(TEnum(e), d))
    /\ UNCHANGED <<self, classes>>

\* member.deserialize(d)
MemberDeserialize(m, d) ==
    /\ Fresh
    /\ op' = <<"EnumMember.deserialize", m[2]>>
    /\ self' = m
    /\ data' = d
    /\ Deserialized(EnumMember_deserialize(m, d))
    /\ UNCHANGED classes

NextEnum ==
    \/ \E e \in EnumNames, value \in Probes : FromValue(e, value)
    \/ \E e \in EnumNames, name \in LookupNames : GetItem(e, name)
    \/ \E e \in EnumNames, name \in LookupNames : GetAttr(e, name)
    \/ \E m \in EnumMembers : MemberSerialize(m)
    \/ EnumRoundTrip
    \/ \E e \in EnumNames, d \in RawScalars \cup RawLists(MaxLen) \cup RawObjects :
          EnumDeserialize(e, d)
    \/ \E m \in EnumMembers, d \in RawScalars \cup RawLists(MaxLen) : MemberDeserialize(m, d)

SpecEnum == Init /\ [][NextEnum]_vars

\* -------------------------------------------------------- Enum declaration
\* The body of `class E(Enum): ...` runs in the EnumDict that
\* EnumMeta.__prepare__ returns: <<"EnumDict", entries, members>>, entries the
\* dict's own <<key, value>> items and members the OrderedDict self.members.
\* A property is <<"property">> and a function <<"function">>.
EnumDict(entries, members) == <<"EnumDict", entries, members>>

_is_descriptor(obj) == Kind(obj) \in {"property", "function"}

\* mapping[key] = value on an ordered mapping kept as a sequence of pairs
SetKey(pairs, key, value) ==
    IF \E i \in 1..Len(pairs) : pairs[i][1] = key
    THEN [i \in 1..Len(pairs) |-> IF pairs[i][1] = key THEN <<key, value>> ELSE pairs[i]]
    ELSE Append(pairs, <<key, value>>)

\* EnumDict.__setitem__(key, value)
EnumDict__setitem__(d, key, value) ==
    IF ~Underscored(key) /\ ~_is_descriptor(value) THEN
        IF \E i \in 1..Len(d[2]) : d[2][i][1] = key
        THEN Mutation(Raise("TypeError", "already defined"), d)
        ELSE IF ~IsInstance(value, TSerializableBase)
        THEN Mutation(Raise("TypeError", "is not a serializable type"), d)
        ELSE Mutation(Ok(PyNone), EnumDict(d[2], SetKey(d[3], key, value)))
    ELSE Mutation(Ok(PyNone), EnumDict(SetKey(d[2], key, value), d[3]))

\* EnumMeta.__new__ for a class deriving from Enum directly: one member per
\* entry of classdict.members, and hashable values pairwise different
EnumMeta__new__(d) ==
    IF \E i, j \in 1..Len(d[3]) :
          i < j /\ Hashable(d[3][i][2]) /\ Hashable(d[3][j][2]) /\ PyEq(d[3][i][2], d[3][j][2])
    THEN Raise("ValueError", "enumeration values must be unique")
    ELSE Ok(<<"EnumClass", d[3]>>)

\* the names and values a body assigns
BodyNames == {"foo", "bar", "_x"}
BodyValues == {PyInt(1), PyInt(2), <<"property">>, <<"function">>, PyBytes("foo")}

\* the body is still running
InBody == op[1] \in {"class", "EnumDict.__setitem__"} /\ IsOk(ret)

\* `class E(Enum):` - the body starts in a new EnumDict, into which the
\* interpreter first stores __module__ and __qualname__
Declare ==
    /\ Fresh
    /\ op' = <<"class">>
    /\ self' = EnumDict(<< <<"__module__", PyStr("m")>>, <<"__qualname__", PyStr("E")>> >>, <<>>)
    /\ ret' = Ok(PyNone)
    /\ UNCHANGED <<data, log, classes>>

\* `key = value` (or a def or a property) in the body; the log keeps the
\* statements run
Assign(key, value) ==
    /\ InBody
    /\ Len(log) < MaxBody
    /\ op' = <<"EnumDict.__setitem__", key, value>>
    /\ Mutated(EnumDict__setitem__(self, key, value))
    /\ log' = Append(log, <<key, value>>)
    /\ UNCHANGED <<data, classes>>

\* the end of the body: the metaclass creates the class
Create ==
    /\ InBody
    /\ op' = <<"EnumMeta.__new__">>
    /\ ret' = EnumMeta__new__(self)
    /\ UNCHANGED <<self, data, log, classes>>

NextEnumDecl ==
    \/ Declare
    \/ \E key \in BodyNames, value \in BodyValues : Assign(key, value)
    \/ Create

SpecEnumDecl == Init /\ [][NextEnumDecl]_vars

\* ------------------------------------------------------------------ claims
IsShapeInstance(v) == Kind(v) \in {"List", "Dict", "Object"}

\* C1: for every instance v of a declared shape T (a bound List, a bound
\* Dict, an Object, and nestings of these), deserialize(serialize(v), T)
\* succeeds and returns a value equal to v.
C1_RoundTrip ==
    (op[1] = "roundtrip" /\ IsShapeInstance(self)) => (IsOk(ret) /\ PyEq(ret[2], self))

\* C2: in every deserialize of a List, Dict, Object or Enum shape, validate
\* is called before any instance is constructed, and when it raises
\* ValidationError no instance of any shape, outer or nested, has been
\* constructed.
C2_ValidationPrecedesConstruction ==
    op[1] \in {"deserialize", "roundtrip"} =>
        /\ \A j \in 1..Len(log) :
              log[j][1] = "construct" =>
                  \E i \in 1..(j - 1) : log[i] = Validated(log[j][2])
        /\ Raised(ret, "ValidationError") =>
              /\ Len(log) > 0
              /\ \A j \in 1..Len(log) : log[j][1] # "construct"

\* a nested list whose second entry does not conform was rejected after the
\* one validate call
C2_Witness ==
    /\ op = <<"deserialize", TList(TList(TInt))>>
    /\ data = PyList(<<PyList(<<PyInt(1)>>), PyList(<<PyStr("foo")>>)>>)
    /\ Raised(ret, "ValidationError")
    /\ log = <<Validated(TList(TList(TInt)))>>

\* the indices of the attributes of an Object instance that hold a value
Present(v) ==
    SelectSeq([i \in 1..Len(v[3]) |-> i], LAMBDA i : v[3][i] # PyNone)

\* C7: Object.serialize() returns exactly one field per declared attribute
\* whose value is present, in declaration order, each holding the serialized
\* value; an absent optional attribute is omitted and never emitted as null.
C7_SerializeFields ==
    (op = <<"serialize">> /\ Kind(self) = "Object") =>
        /\ IsOk(ret)
        /\ Kind(data) = "dict"
        /\ Len(Pairs(data)) = Len(Present(self))
        /\ \A k \in 1..Len(Pairs(data)) :
              /\ Pairs(data)[k][1] = PyStr(ObjectAttributes(self[2][2])[Present(self)[k]].name)
              /\ Ok(Pairs(data)[k][2]) = serialize(self[3][Present(self)[k]])
              /\ Pairs(data)[k][2] # PyNone

\* an ExampleObject without its optional attribute was serialized to two fields
C7_Witness ==
    /\ op = <<"serialize">>
    /\ Kind(self) = "Object"
    /\ self[2] = TObject("ExampleObject")
    /\ self[3][3] = PyNone
    /\ Len(Pairs(data)) = 2

\* the four primitive kinds
IsPrimitiveKind(t) == t \in {TInt, TFloat, TBool, TStr}

\* C10: schema(t) has exactly one of three outcomes: t's own schema when t is
\* Serializable-capable, {type: tag} when t is one of the four primitive
\* kinds, TypeError for anything else; serialize and deserialize classify
\* the same way, and no other error kind escapes the classification step.
C10_DispatchTotal ==
    /\ op[1] = "schema" =>
          /\ op[2] \in Shapes => IsOk(ret)
          /\ IsPrimitiveKind(op[2]) => ret = Ok(<<"type", JSON_SCHEMA_TYPES[op[2][1]]>>)
          /\ (~IsSerializableType(op[2]) /\ ~IsPrimitiveKind(op[2])) =>
                Raised(ret, "TypeError")
    /\ (op[1] = "deserialize" /\ ~IsSerializableType(op[2]) /\ ~IsPrimitiveKind(op[2])) =>
          Raised(ret, "TypeError")
    /\ op = <<"serialize">> =>
          /\ IsShapeInstance(self) => IsOk(ret)
          /\ Kind(self) \in {"int", "float", "bool", "str"} => ret = Ok(self)
          /\ Kind(self) \in {"none", "bytes", "list"} => Raised(ret, "TypeError")

\* C4: on a bound List an index write or insert, and on a bound Dict a key
\* write, whose new value is not an instance of the bound element type fails
\* with TypeError and leaves the container's contents exactly as they were.
C4_RejectedWritesChangeNothing ==
    [][(/\ op'[1] \in {"List.__setitem__", "List.insert", "Dict.__setitem__"}
        /\ ~IsInstance(op'[3], self[2][2]))
       => (Raised(ret', "TypeError") /\ self' = self)]_vars

\* List[int]([1, 2]).insert(1, "foo") was rejected and the list is [1, 2]
C4_Witness ==
    /\ op = <<"List.insert", 1, PyStr("foo")>>
    /\ Raised(ret, "TypeError")
    /\ self = <<"List", TList(TInt), <<PyInt(1), PyInt(2)>> >>

\* a sequence of pairs has a key that is not a string
HasNonStringKey(pairs) == \E i \in 1..Len(pairs) : Kind(pairs[i][1]) # "str"

\* C5: a bound Dict rejects a non-string key with TypeError at construction
\* and at key write, whatever the value; on a key write the key check runs
\* before the value check, and the mapping is left unchanged.
C5_MappingKeyTyping ==
    [][/\ (op'[1] = "Dict" /\ HasNonStringKey(op'[2]))
            => (Raised(ret', "TypeError") /\ self' = PyNone)
       /\ (op'[1] = "Dict.__setitem__" /\ Kind(op'[2]) # "str")
            => (ret' = Raise("TypeError", "keys must be of type str") /\ self' = self)]_vars

\* a key write with a non-string key and a wrongly typed value was rejected
\* on a mapping that holds an entry
C5_Witness ==
    /\ op = <<"Dict.__setitem__", PyInt(1), PyStr("foo")>>
    /\ ret = Raise("TypeError", "keys must be of type str")
    /\ self = <<"Dict", TDict(TInt), << <<PyStr("a"), PyInt(1)>> >> >>

\* the keyword arguments satisfy Object.__init__: every required attribute is
\* supplied, no undeclared keyword is, and each supplied value has its
\* attribute's type (or is None, for an optional attribute)
Acceptable(cls, kwargs) ==
    /\ \A i \in 1..Len(ObjectAttributes(cls[2])) :
          \/ ObjectAttributes(cls[2])[i].optional
          \/ ObjectAttributes(cls[2])[i].name \in KwNames(kwargs)
    /\ KwNames(kwargs) \subseteq AttrNames(cls[2])
    /\ \A k \in 1..Len(kwargs) :
          kwargs[k][1] \in AttrNames(cls[2]) =>
              \/ IsInstance(kwargs[k][2],
                            ObjectAttributes(cls[2])[AttrIndex(cls[2], kwargs[k][1])].type)
              \/ /\ ObjectAttributes(cls[2])[AttrIndex(cls[2], kwargs[k][1])].optional
                 /\ kwargs[k][2] = PyNone

\* C6: Object construction succeeds exactly when every required attribute is
\* supplied, no undeclared keyword is supplied and every supplied value passes
\* its type check; otherwise it fails with TypeError and yields no instance.
\* On success every omitted optional attribute holds None.
C6_Construction ==
    op[1] = "Object" =>
        IF Acceptable(op[2], op[3])
        THEN /\ IsOk(ret)
             /\ self = ret[2]
             /\ Kind(self) = "Object" /\ self[2] = op[2]
             /\ \A i \in 1..Len(ObjectAttributes(op[2][2])) :
                   IF ObjectAttributes(op[2][2])[i].name \in KwNames(op[3])
                   THEN self[3][i] = KwValue(op[3], ObjectAttributes(op[2][2])[i].name)
                   ELSE self[3][i] = PyNone
        ELSE Raised(ret, "TypeError") /\ self = PyNone

\* ExampleObject(integer=1, string='foo') was built and its optional
\* attribute holds None
C6_Witness ==
    /\ op = <<"Object", TObject("ExampleObject"),
              << <<"integer", PyInt(1)>>, <<"string", PyStr("foo")>> >> >>
    /\ IsOk(ret)
    /\ self[3] = <<PyInt(1), PyStr("foo"), PyNone>>

\* C8: from_value(v) returns a member whose value equals v whenever the enum
\* has one (by the index for a hashable probe, by a scan for an unhashable
\* one) and fails with ValueError otherwise; indexing by a name that is not a
\* member fails with KeyError, attribute access by such a name with
\* AttributeError.
C8_EnumLookup ==
    /\ op[1] = "from_value" =>
          IF \E n \in MemberNames(op[2]) : PyEq(MemberValue(EnumMember(op[2], n)), op[3])
          THEN /\ IsOk(ret)
               /\ Kind(ret[2]) = "member" /\ ret[2][2] = op[2]
               /\ ret[2][3] \in MemberNames(op[2])
               /\ PyEq(MemberValue(ret[2]), op[3])
          ELSE Raised(ret, "ValueError")
    /\ op[1] = "Enum.__getitem__" =>
          IF op[3] \in MemberNames(op[2]) THEN ret = Ok(EnumMember(op[2], op[3]))
          ELSE Raised(ret, "KeyError")
    /\ op[1] = "Enum.__getattr__" =>
          IF op[3] \in MemberNames(op[2]) THEN ret = Ok(EnumMember(op[2], op[3]))
          ELSE Raised(ret, "AttributeError")

\* ExampleEnum.from_value(List[int]([1, 2])), an unhashable probe, returned
\* the member array
C8_Witness ==
    /\ op = <<"from_value", "ExampleEnum", <<"List", TList(TInt), <<PyInt(1), PyInt(2)>> >> >>
    /\ ret = Ok(EnumMember("ExampleEnum", "array"))

\* C9: for every enum E and member m, whatever serializable value m wraps,
\* E.deserialize(m.serialize()) returns m, and m.deserialize(data) returns
\* what E.deserialize(data) returns.
C9_EnumRoundTrip ==
    /\ op = <<"Enum.roundtrip">> => ret = Ok(self)
    /\ op[1] = "EnumMember.deserialize" => ret = Enum_deserialize(TEnum(op[2]), data).r

\* C3: after any sequence of parametrization requests, Base[E] for the same
\* (base, E) pair returns the identical shape, so at most one bound shape
\* exists per pair, and requests with a different element type or a different
\* base return different shapes.
C3_Canonicalization ==
    /\ \A i, j \in 1..Len(log) :
          (log[i][1] = log[j][1] /\ log[i][2] = log[j][2]) <=> (log[i][3] = log[j][3])
    /\ \A b, c \in 1..Len(classes) :
          \A i \in 1..Len(classes[b].cache), j \in 1..Len(classes[c].cache) :
              (classes[b].cache[i][2] = classes[c].cache[j][2]) => (b = c /\ i = j)

\* List[int] was requested twice and returned the one class both times
C3_Witness ==
    /\ log = << <<1, TInt, TClass(3)>>, <<1, TInt, TClass(3)>> >>
    /\ Len(classes) = 3

\* C11: whenever deserialize(data, T) returns for a supported target type T (a
\* primitive kind, a bound container, an Object shape, an Enum shape), the
\* result is an instance of T, as an element of List[T] or an attribute of
\* type T must be.
C11_DeserializeReturnsInstance ==
    (op[1] = "deserialize" /\ (op[2] \in Shapes \/ IsPrimitiveKind(op[2])) /\ IsOk(ret))
        => IsInstance(ret[2], op[2])

\* the class at position k came from a Base[E] request, or derives from one
\* that did
RECURSIVE IsBoundShape(_, _)
IsBoundShape(cs, k) ==
    \/ \E b \in 1..Len(cs) : \E i \in 1..Len(cs[b].cache) : cs[b].cache[i][2] = TClass(k)
    \/ \E j \in 1..Len(cs[k].bases) : IsBoundShape(cs, cs[k].bases[j])

\* E is Serializable-capable or one of the four primitive kinds
IsElementType(E) == IsPrimitiveKind(E) \/ IsSerializableType(E) \/ E[1] = "class"

\* C12: constructing an instance of a container shape with no bound element
\* type fails with TypeError; Base[E] fails with TypeError when E is not a
\* type or is neither Serializable-capable nor a primitive kind; S[E] on an
\* already bound shape S fails with TypeError and creates and caches nothing.
C12_ParametrizationProtocol ==
    [][/\ (op'[1] = "ContainerBase.__init__" /\ ~IsBoundShape(classes, op'[2]))
            => Raised(ret', "TypeError")
       /\ (op'[1] = "ContainerMeta.__getitem__" /\ ~IsElementType(op'[3]))
            => Raised(ret', "TypeError")
       /\ (op'[1] = "ContainerMeta.__getitem__" /\ IsBoundShape(classes, op'[2]))
            => (Raised(ret', "TypeError") /\ classes' = classes)]_vars

\* C13: an instance of a bound shape B = List[E] or Dict[E] and an instance of
\* a shape derived from B never compare equal, whatever their contents, in
\* either comparison order.
C13_DerivationLevels ==
    (/\ op[1] = "__eq__"
     /\ TypeOf(op[2]) # TypeOf(op[3])
     /\ (IsSubclass(TypeOf(op[2]), TypeOf(op[3])) \/ IsSubclass(TypeOf(op[3]), TypeOf(op[2]))))
        => ret = Ok(PyBool(FALSE))

\* every declared attribute of v holds an instance of its type, or None when
\* it is optional
TypedAttributes(v) ==
    \A i \in 1..Len(ObjectAttributes(v[2][2])) :
        \/ IsInstance(v[3][i], ObjectAttributes(v[2][2])[i].type)
        \/ ObjectAttributes(v[2][2])[i].optional /\ v[3][i] = PyNone

\* C14: after construction and any sequence of attribute assignments, each
\* required attribute holds an instance of its declared type and each
\* optional one an instance or None; an assignment to an undeclared name
\* fails with AttributeError, one of a wrongly typed value with TypeError, and
\* every rejected assignment leaves all attribute values unchanged.
C14_TypedAttributes ==
    [][/\ Kind(self') = "Object" => TypedAttributes(self')
       /\ op'[1] = "Object.__setattr__" =>
            /\ op'[2] \notin AttrNames(self[2][2]) => Raised(ret', "AttributeError")
            /\ (/\ op'[2] \in AttrNames(self[2][2])
                /\ ~TypedAttributes(object__setattr__(self, op'[2], op'[3])))
                  => Raised(ret', "TypeError")
            /\ ~IsOk(ret') => self' = self
            /\ IsOk(ret') => self' = object__setattr__(self, op'[2], op'[3])]_vars

\* a wrongly typed assignment was rejected after an accepted one
C14_Witness ==
    /\ op[1] = "Object.__setattr__"
    /\ Raised(ret, "TypeError")
    /\ Kind(self) = "Object"
    /\ self[3][1] = PyInt(2)

\* every element (value) of v is an instance of v's element type, and every
\* key of a Dict is a string
Homogeneous(v) ==
    /\ Kind(v) = "List" => \A i \in 1..Len(v[3]) : IsInstance(v[3][i], v[2][2])
    /\ Kind(v) = "Dict" =>
          \A i \in 1..Len(v[3]) :
              Kind(v[3][i][1]) = "str" /\ IsInstance(v[3][i][2], v[2][2])

\* C15: in every state reached from a constructed List[E] by index write,
\* slice write, insert, append, extend, in-place concatenation and delete,
\* and from a Dict[E] by key write, update, setdefault and delete, every
\* element is an instance of E and every Dict key is a string.
C15_Homogeneity == Homogeneous(self)

\* the instance holds every declared attribute name
Carried(v) == \A i \in 1..Len(v[3]) : Kind(v[3][i]) # "Attribute"

\* C16: after construction and any sequence of attribute assignments and
\* deletions an Object instance carries exactly its declared attribute
\* names, none added and none removed, so serialize() never fails on a
\* missing attribute.
C16_FixedAttributeSet ==
    Kind(self) = "Object" => (Carried(self) /\ IsOk(Object_serialize(self)))

\* the statements of the body so far that defined key
Definitions(key) == SelectSeq(log, LAMBDA s : s[1] = key)

\* C17: in an enum body, assigning a member under a name already defined (as
\* a descriptor or as an earlier member) and defining a descriptor under a
\* name already used by a member fail with TypeError, so each declared name
\* yields exactly one member, holding the first value given.
C17_NoOverwrite ==
    [][/\ (/\ op'[1] = "EnumDict.__setitem__"
           /\ ~Underscored(op'[2])
           /\ Len(Definitions(op'[2])) > 0
           /\ (~_is_descriptor(op'[3])
               \/ \E i \in 1..Len(Definitions(op'[2])) : ~_is_descriptor(Definitions(op'[2])[i][2])))
            => Raised(ret', "TypeError")
       /\ (op'[1] = "EnumMeta.__new__" /\ IsOk(ret'))
            => \A i \in 1..Len(ret'[2][2]) :
                  ret'[2][2][i][2] = Definitions(ret'[2][2][i][1])[1][2]]_vars

\* C18: whenever E passes the serializable-type check, so that Base[E] or
\* Attribute(E) is accepted, schema(E) returns a schema and so does schema()
\* of the bound container shape.
C18_AcceptedTypesHaveSchema ==
    /\ (op[1] = "List[E].schema" /\ IsOk(_check_serializable_type(op[2]))) => IsOk(ret)
    /\ (op[1] = "schema" /\ IsOk(_check_serializable_type(op[2]))) => IsOk(ret)

====
